---- MODULE Spec2Model ----
(***************************************************************************)
(* Model of aura's location-resolution core:                               *)
(*   src/aura/uri_handlers/base.py  URIHandler registry, ScanLocation,     *)
(*                                  cleanup_locations                      *)
(*   src/aura/commands.py           the drivers scan_uri, check_requirement*)
(*                                                                         *)
(* Strings are sequences of one-character strings; a pathlib.Path is the   *)
(* normalised string of its os.fspath.  Python's None is the value None    *)
(* below (a sequence that is no string of the alphabet).                   *)
(*                                                                         *)
(* The specifications share the module, each driving its own variables    *)
(* and leaving the others idle:                                            *)
(*   SpecStrip     ScanLocation.strip as a pure function                   *)
(*   Spec          ScanLocation construction, create_child, tagging and    *)
(*                 should_continue                                         *)
(*   SpecCleanup   the life of locations through cleanup_locations         *)
(*   SpecEnrich    post_analysis, once and again                           *)
(*   SpecRender    display strings along an unpacked archive's chain       *)
(*   SpecLineage   parent linkage along chains of derivations              *)
(*   SpecRegistry  URIHandler.load_handlers / from_uri / diff_from_uri     *)
(*   SpecDriver    scan_uri and check_requirement                          *)
(***************************************************************************)
EXTENDS Integers, Sequences, FiniteSets, TLC

(***************************************************************************)
(* Bounds of the model.                                                    *)
(***************************************************************************)
MaxTargetLen == 4
MaxStripLen == 2
MaxParentLen == 1
MaxPlugins == 2
MaxCreated == 2
MaxRuns == 2
MaxLocations == 2

(***************************************************************************)
(* Strings.                                                                *)
(***************************************************************************)
None == <<"None">>

SEP == "/"

Chars == {"a", SEP}

RECURSIVE StringsUpTo(_)
StringsUpTo(n) ==
    IF n = 0 THEN {<<>>}
    ELSE LET shorter == StringsUpTo(n - 1)
         IN  shorter \cup {Append(s, c) : s \in {x \in shorter : Len(x) = n - 1}, c \in Chars}

\* str.startswith
StartsWith(s, prefix) ==
    /\ Len(prefix) <= Len(s)
    /\ SubSeq(s, 1, Len(prefix)) = prefix

\* s[n:]  (a slice past the end is the empty string)
SliceFrom(s, n) == IF n >= Len(s) THEN <<>> ELSE SubSeq(s, n + 1, Len(s))

\* truth value of a parent / strip_path: None and "" are false
Truthy(s) == s # None /\ s # <<>>

(***************************************************************************)
(* ScanLocation.strip, base.py 261-288.                                    *)
(***************************************************************************)
StripSize(strip_path) ==
    IF strip_path[Len(strip_path)] # SEP THEN Len(strip_path) + 1 ELSE Len(strip_path)

StripPrefix(strip_path, target) ==
    IF Truthy(strip_path) /\ StartsWith(target, strip_path)
    THEN SliceFrom(target, StripSize(strip_path))
    ELSE target

AddParent(parent, target) ==
    IF Truthy(parent)
    THEN IF ~StartsWith(target, parent) THEN parent \o <<"$">> \o target ELSE target
    ELSE target

strip(strip_path, parent, target) == AddParent(parent, StripPrefix(strip_path, target))

(***************************************************************************)
(* URIs.  A URI is a sequence of tokens; urllib.parse.urlparse splits off  *)
(* the text before the first ":" as the scheme, lower-cased, and a text    *)
(* without ":" has the empty scheme.                                       *)
(***************************************************************************)
URIs ==
    { <<"file", ":", "//a">>,
      <<"mirror", ":", "//pkgname">>,
      <<"MIRROR", ":", "//pkgname">>,
      <<"pypi", ":", "//pkgname">>,
      <<"/a">> }

Lower(tok) == IF tok = "MIRROR" THEN "mirror" ELSE tok

urlparse(uri) ==
    IF Len(uri) >= 2 /\ uri[2] = ":"
    THEN [scheme |-> Lower(uri[1]), rest |-> SubSeq(uri, 3, Len(uri))]
    ELSE [scheme |-> "", rest |-> uri]

(***************************************************************************)
(* The plugin source pkg_resources.iter_entry_points("aura.uri_handlers"): *)
(* a sequence of entry points.  Loading entry point number i gives the     *)
(* handler class [name, scheme, default], or raises FeatureDisabled when   *)
(* the entry is disabled.                                                  *)
(***************************************************************************)
Schemes == {"file", "mirror"}

EntryPoints == [scheme : Schemes, default : BOOLEAN, disabled : BOOLEAN]

RECURSIVE SeqsUpTo(_, _)
SeqsUpTo(S, n) ==
    IF n = 0 THEN {<<>>}
    ELSE LET shorter == SeqsUpTo(S, n - 1)
         IN  shorter \cup {Append(s, e) : s \in {x \in shorter : Len(x) = n - 1}, e \in S}

PluginSources == SeqsUpTo(EntryPoints, MaxPlugins)

EntryName(i) == <<"ep", i>>

Hook(plugins, i) ==
    [name |-> EntryName(i), scheme |-> plugins[i].scheme, default |-> plugins[i].default]

\* no call of the registry yet; scanned tells whether a call iterated the
\* plugin source
NoCall == [op |-> "none", args |-> <<>>, out |-> <<>>, scanned |-> FALSE]

\* URIHandler.default = None, base.py 37
NoHook == [name |-> None, scheme |-> "None", default |-> FALSE]

(***************************************************************************)
(* HANDLERS is a dict: a sequence of entries in insertion order.  An entry *)
(* is a handler class under its scheme, or the dict of disabled entry      *)
(* points (name, reason) under the key "disabled".                         *)
(***************************************************************************)
HandlerEntry(hook) == [key |-> hook.scheme, isHook |-> TRUE, hook |-> hook, disabled |-> <<>>]

DisabledEntry(items) == [key |-> "disabled", isHook |-> FALSE, hook |-> NoHook, disabled |-> items]

HasKey(d, k) == \E i \in 1..Len(d) : d[i].key = k

\* d[k] = entry: an existing key keeps its place
DictSet(d, entry) ==
    IF HasKey(d, entry.key)
    THEN [i \in 1..Len(d) |-> IF d[i].key = entry.key THEN entry ELSE d[i]]
    ELSE Append(d, entry)

DictGet(d, k) == d[CHOOSE i \in 1..Len(d) : d[i].key = k]

\* exc.args[0] of the FeatureDisabled that loading entry point i raises
EntryReason(i) == <<"reason", i>>

\* a load that drops what a disabled entry says
AddDisabled_Dropped(d, name, reason) == d

\* handlers.setdefault("disabled", {})[x.name] = exc.args[0]
AddDisabled(d, name, reason) ==
    LET old == IF HasKey(d, "disabled") THEN DictGet(d, "disabled").disabled ELSE <<>>
        item == [name |-> name, reason |-> reason]
        new == IF \E i \in 1..Len(old) : old[i].name = name
               THEN [i \in 1..Len(old) |-> IF old[i].name = name THEN item ELSE old[i]]
               ELSE Append(old, item)
    IN  DictSet(d, DisabledEntry(new))

\* a default that the last entry declaring itself default takes
NextDefault_LastWins(current, hook) == IF hook.default THEN hook ELSE current

\* if hook.default and not cls.default: cls.default = hook
NextDefault(current, hook) ==
    IF hook.default /\ current = NoHook THEN hook ELSE current

\* The loop of load_handlers over entry points i..Len(plugins); st is
\* [handlers, default].
RECURSIVE LoadLoop(_, _, _, _)
LoadLoop(plugins, ignore_disabled, i, st) ==
    IF i > Len(plugins) THEN st
    ELSE LET x == plugins[i]
             hook == Hook(plugins, i)
             next ==
                 IF x.disabled
                 THEN IF ~ignore_disabled
                      THEN [st EXCEPT !.handlers = AddDisabled(st.handlers, EntryName(i), EntryReason(i))]
                      ELSE st
                 ELSE [handlers |-> DictSet(st.handlers, HandlerEntry(hook)),
                       default |-> NextDefault(st.default, hook)]
         IN  LoadLoop(plugins, ignore_disabled, i + 1, next)

\* `if not HANDLERS`: the call iterates the plugin source
IteratesSource(st) == st.handlers = <<>>

\* URIHandler.load_handlers: the registry [handlers, default] after the call
load_handlers(plugins, ignore_disabled, st) ==
    IF IteratesSource(st)
    THEN LoadLoop(plugins, ignore_disabled, 1, [handlers |-> <<>>, default |-> st.default])
    ELSE st

\* Results of a resolution: a handler instance, or an exception raised
Instance(hook, parsed) == [kind |-> "handler", type |-> hook.name, scheme |-> parsed.scheme]

Raise(exc) == [kind |-> "raise", type |-> <<exc>>, scheme |-> ""]

\* cls.default(parsed): calling None raises TypeError
CallDefault(default, parsed) ==
    IF default = NoHook THEN Raise("TypeError") ELSE Instance(default, parsed)

\* handler.is_supported(parsed), base.py 42-44
is_supported(hook, parsed) == parsed.scheme = hook.scheme

\* the loop of from_uri over HANDLERS.values() from position i on
RECURSIVE FromUriLoop(_, _, _, _)
FromUriLoop(handlers, default, parsed, i) ==
    IF i > Len(handlers) THEN CallDefault(default, parsed)
    ELSE IF ~handlers[i].isHook THEN Raise("AttributeError")
    ELSE IF is_supported(handlers[i].hook, parsed) THEN Instance(handlers[i].hook, parsed)
    ELSE FromUriLoop(handlers, default, parsed, i + 1)

\* URIHandler.from_uri on the loaded registry st
from_uri(st, uri) == <<FromUriLoop(st.handlers, st.default, urlparse(uri), 1)>>

\* the loop of diff_from_uri over product(HANDLERS.values(), repeat=2);
\* k counts the pairs, 0-based, the second handler varying fastest
RECURSIVE DiffLoop(_, _, _, _, _)
DiffLoop(handlers, default, parsed1, parsed2, k) ==
    LET n == Len(handlers)
        handler1 == handlers[(k \div n) + 1]
        handler2 == handlers[(k % n) + 1]
    IN  IF k >= n * n
        THEN LET d1 == CallDefault(default, parsed1)
             IN  IF d1.kind = "raise" THEN <<d1>> ELSE <<d1, CallDefault(default, parsed2)>>
        ELSE IF ~handler1.isHook THEN <<Raise("AttributeError")>>
        ELSE IF ~is_supported(handler1.hook, parsed1)
             THEN DiffLoop(handlers, default, parsed1, parsed2, k + 1)
        ELSE IF ~handler2.isHook THEN <<Raise("AttributeError")>>
        ELSE IF is_supported(handler2.hook, parsed2)
             THEN <<Instance(handler1.hook, parsed1), Instance(handler2.hook, parsed2)>>
        ELSE DiffLoop(handlers, default, parsed1, parsed2, k + 1)

\* URIHandler.diff_from_uri on the loaded registry st
diff_from_uri(st, uri1, uri2) ==
    DiffLoop(st.handlers, st.default, urlparse(uri1), urlparse(uri2), 0)

(***************************************************************************)
(* The file system.  Paths are normalised strings; the path of             *)
(* tempfile.gettempdir() is TempDir.  A path is absent, a directory or a   *)
(* file; a file has a size, the mime type libmagic reports for its content *)
(* and the imports find_imports finds in it.                               *)
(***************************************************************************)
TempDir == <<SEP, "t">>

TmpA == <<SEP, "t", SEP, "a">>

DataA == <<SEP, "a">>

Paths == {TempDir, TmpA, DataA}

\* location arguments that are strings: a normalised path, or one with a
\* trailing separator
LocationInputs == {DataA, TmpA, TmpA \o <<SEP>>}

\* pathlib.Path(s): a trailing separator is dropped
RECURSIVE PathOf(_)
PathOf(s) ==
    IF Len(s) > 1 /\ s[Len(s)] = SEP THEN PathOf(SubSeq(s, 1, Len(s) - 1)) ELSE s

\* p is q or lies in the tree under q
Inside(p, q) == p = q \/ StartsWith(p, q \o <<SEP>>)

Absent == [kind |-> "absent", size |-> 0, magic |-> None, imports |-> <<>>]

Dir == [kind |-> "dir", size |-> 0, magic |-> None, imports |-> <<>>]

SmallText == [kind |-> "file", size |-> 100, magic |-> <<"text/plain">>, imports |-> <<>>]

BigPy == [kind |-> "file", size |-> 10000, magic |-> <<"text/x-python">>, imports |-> <<"os">>]

FileSystem(a, b) == [p \in Paths |-> IF p = TempDir THEN Dir ELSE IF p = TmpA THEN a ELSE b]

FileSystems == {FileSystem(Dir, Dir), FileSystem(Dir, SmallText), FileSystem(BigPy, Dir)}

is_file(fsys, p) == p \in Paths /\ fsys[p].kind = "file"

is_dir(fsys, p) == p \in Paths /\ fsys[p].kind = "dir"

exists(fsys, p) == p \in Paths /\ fsys[p].kind # "absent"

(***************************************************************************)
(* Metadata dicts: functions from the keys present to their values.        *)
(***************************************************************************)
EmptyDict == [k \in {} |-> None]

Has(m, k) == k \in DOMAIN m

Put(m, k, v) == [x \in (DOMAIN m) \cup {k} |-> IF x = k THEN v ELSE m[x]]

Pop(m, k) == [x \in (DOMAIN m) \ {k} |-> m[x]]

\* m.get(k)
Get(m, k) == IF Has(m, k) THEN m[k] ELSE None

(***************************************************************************)
(* ScanLocation.__post_init__ and __compute_hashes, base.py 123-187.       *)
(***************************************************************************)
TLSH_MIN == 256

NoSize == -1

\* a digest of the bytes of the file at path p: equal for equal content
Digest(algo, fsys, p) == <<algo, p, fsys[p].size>>

compute_hashes(fsys, p, metadata) ==
    LET m1 == IF fsys[p].size >= TLSH_MIN
              THEN Put(metadata, "tlsh", Digest("tlsh", fsys, p)) ELSE metadata
        m2 == Put(m1, "md5", Digest("md5", fsys, p))
        m3 == Put(m2, "sha1", Digest("sha1", fsys, p))
        m4 == Put(m3, "sha256", Digest("sha256", fsys, p))
    IN  Put(m4, "sha512", Digest("sha512", fsys, p))

GenericMimes == {<<"text/plain">>, <<"application/octet-stream">>, <<"text/none">>}

PythonMimes == {<<"text/x-python">>, <<"text/x-script.python">>}

\* mimetypes.guess_type(name)[0]: the names of the model carry no extension
guess_type(str_location) == None

detect_mime(fsys, p, str_location) ==
    IF fsys[p].magic \in GenericMimes THEN guess_type(str_location) ELSE fsys[p].magic

attach_imports(fsys, p, metadata) ==
    IF metadata["mime"] \in PythonMimes /\ ~Has(metadata, "no_imports")
    THEN IF fsys[p].imports # <<>> THEN Put(metadata, "py_imports", fsys[p].imports)
         ELSE metadata
    ELSE metadata

\* depth missing: default to 0 (with a warning)
DepthMissing(metadata) == ~Has(metadata, "depth")

SeedMetadata(metadata, path, display) ==
    LET m1 == Put(metadata, "path", path)
        m2 == Put(m1, "normalized_path", display)
        m3 == Put(m2, "tags", {})
    IN  IF DepthMissing(m3) THEN Put(m3, "depth", 0) ELSE m3

\* the location constructed by ScanLocation(location, metadata, cleanup,
\* parent, strip_path)
post_init(fsys, location, metadata, cleanup, parent, strip_path) ==
    LET path == PathOf(location)
        seeded == SeedMetadata(metadata, path, strip(strip_path, parent, location))
        meta == IF is_file(fsys, path)
                THEN LET h == compute_hashes(fsys, path, seeded)
                         m == Put(h, "mime", detect_mime(fsys, path, location))
                     IN  attach_imports(fsys, path, m)
                ELSE seeded
    IN  [location |-> path,
         str_location |-> location,
         metadata |-> meta,
         cleanup |-> cleanup,
         parent |-> parent,
         strip_path |-> strip_path,
         size |-> IF is_file(fsys, path) THEN fsys[path].size ELSE NoSize]

\* str(self)
Str(self) == strip(self.strip_path, self.parent, self.str_location)

(***************************************************************************)
(* ScanLocation.create_child, base.py 221-259.  The metadata argument is   *)
(* [given, dict]: given is false for None; kwargs is the dict of keyword   *)
(* overrides.                                                              *)
(***************************************************************************)
NoMetadata == [given |-> FALSE, dict |-> EmptyDict]

Supplied(dict) == [given |-> TRUE, dict |-> dict]

ChildDepth(self) == self.metadata["depth"] + 1

InheritMetadata(self, metadata) ==
    IF ~metadata.given
    THEN Put(self.metadata, "depth", ChildDepth(self))
    ELSE metadata.dict

ChildMetadata(self, metadata) ==
    LET m0 == InheritMetadata(self, metadata)
        m1 == Pop(Pop(Pop(m0, "mime"), "interpreter_path"), "interpreter_name")
    IN  Put(m1, "analyzers", Get(self.metadata, "analyzers"))

\* a linkage that makes every deriving location the parent
ChildParent_AlwaysSelf(fsys, self, kwargs) ==
    IF Has(kwargs, "parent") THEN kwargs["parent"] ELSE self.location

\* the parent of the child, base.py 237-242
ChildParent(fsys, self, kwargs) ==
    IF Has(kwargs, "parent") THEN kwargs["parent"]
    ELSE IF is_dir(fsys, self.location) THEN self.parent
    ELSE self.location

ChildStripPath(self, str_loc, kwargs) ==
    IF Has(kwargs, "strip_path") THEN kwargs["strip_path"]
    ELSE IF StartsWith(str_loc, TempDir) THEN str_loc
    ELSE self.strip_path

ChildCleanup(kwargs) == IF Has(kwargs, "cleanup") THEN kwargs["cleanup"] ELSE FALSE

create_child(fsys, self, new_location, metadata, kwargs) ==
    post_init(fsys, new_location, ChildMetadata(self, metadata),
              ChildCleanup(kwargs), ChildParent(fsys, self, kwargs),
              ChildStripPath(self, new_location, kwargs))

(***************************************************************************)
(* Detections and ScanLocation.post_analysis, base.py 318-343.  A nullable *)
(* field that holds an object or a number is <<>> when None and <<v>> when *)
(* set.                                                                    *)
(***************************************************************************)
\* the fields a Detection starts with when its constructor is not given them
DetectionDefaults ==
    [line_no |-> <<>>, line |-> None, tags |-> {}, scan_location |-> <<>>,
     metadata |-> <<>>, severity |-> <<>>]

\* lookup_lines(self.str_location, line_numbers): the text of each line asked for
lookup_lines(str_location, line_numbers) ==
    [n \in line_numbers |-> <<"line", n>>]

LineNumbers(detections) ==
    {detections[i].line_no[1] :
        i \in {j \in 1..Len(detections) :
                 detections[j].line_no # <<>> /\ detections[j].line = None}}

get_severity(d) == <<"severity", d.message>>

EnrichDetection(self, lines, d) ==
    LET d1 == [d EXCEPT !.tags = d.tags \cup self.metadata["tags"]]
        d2 == [d1 EXCEPT !.location =
                  IF d.location = None THEN Str(self)
                  ELSE strip(self.strip_path, self.parent, d.location)]
        d3 == IF d2.scan_location = <<>> THEN [d2 EXCEPT !.scan_location = <<self>>] ELSE d2
        d4 == IF d3.line = None
              THEN [d3 EXCEPT !.line =
                       IF d3.line_no # <<>> /\ d3.line_no[1] \in DOMAIN lines
                       THEN lines[d3.line_no[1]] ELSE None]
              ELSE d3
        d5 == IF d4.metadata = <<>> THEN [d4 EXCEPT !.metadata = <<self.metadata>>] ELSE d4
    IN  IF d5.severity = <<>> THEN [d5 EXCEPT !.severity = <<get_severity(d5)>>] ELSE d5

post_analysis(self, detections) ==
    LET lines == lookup_lines(self.str_location, LineNumbers(detections))
    IN  [i \in 1..Len(detections) |-> EnrichDetection(self, lines, detections[i])]

(***************************************************************************)
(* ScanLocation.should_continue, base.py 290-312.  cfg is the "aura"       *)
(* section of the configuration: option values are digit strings.          *)
(***************************************************************************)
DEFAULT_MAX_DEPTH == 5

DigitValue(c) ==
    CASE c = "0" -> 0 [] c = "1" -> 1 [] c = "2" -> 2 [] c = "3" -> 3 [] c = "4" -> 4
      [] c = "5" -> 5 [] c = "6" -> 6 [] c = "7" -> 7 [] c = "8" -> 8 [] c = "9" -> 9

\* int(text)
RECURSIVE ParseInt(_)
ParseInt(text) ==
    IF Len(text) = 0 THEN 0
    ELSE 10 * ParseInt(SubSeq(text, 1, Len(text) - 1)) + DigitValue(text[Len(text)])

ConfiguredMaxDepth(cfg) ==
    IF Has(cfg, "max-depth") THEN ParseInt(cfg["max-depth"]) ELSE DEFAULT_MAX_DEPTH

ConfigSections == {EmptyDict, [k \in {"max-depth"} |-> <<"1">>]}

\* the depth test with the boundary on the wrong side
DepthExceeded_AtLimit(depth, max_depth) == depth >= max_depth

DepthExceeded(depth, max_depth) == depth > max_depth

DataProcessing(self) ==
    [message |-> "Maximum processing depth reached",
     extra |-> [reason |-> "max_depth", location |-> Str(self)],
     location |-> self.location,
     signature |-> <<"data_processing#max_depth#">> \o Str(self),
     line_no |-> DetectionDefaults.line_no,
     line |-> DetectionDefaults.line,
     tags |-> DetectionDefaults.tags,
     scan_location |-> DetectionDefaults.scan_location,
     metadata |-> DetectionDefaults.metadata,
     severity |-> DetectionDefaults.severity]

\* the result: True, or the Detection that halts the processing
should_continue(self, cfg) ==
    IF DepthExceeded(self.metadata["depth"], ConfiguredMaxDepth(cfg))
    THEN [continue |-> FALSE, detection |-> post_analysis(self, <<DataProcessing(self)>>)]
    ELSE [continue |-> TRUE, detection |-> <<>>]

(***************************************************************************)
(* cleanup_locations, base.py 346-362.  st is [fs, cl, raised, calls]: the *)
(* file system, CLEANUP_LOCATIONS, whether an exception ended the call and *)
(* the paths shutil.rmtree was called on.                                  *)
(***************************************************************************)
\* shutil.rmtree(p) of a directory
rmtree(fsys, p) == [q \in Paths |-> IF Inside(q, p) THEN Absent ELSE fsys[q]]

\* the removal without its test of location.exists()
RemoveIfExists_Unchecked(st, p) ==
    IF is_dir(st.fs, p) \/ ~exists(st.fs, p)
    THEN [st EXCEPT !.fs = rmtree(st.fs, p), !.calls = Append(@, p)]
    ELSE [st EXCEPT !.raised = TRUE, !.calls = Append(@, p)]

\* location.exists() and shutil.rmtree(location): rmtree of a path that is
\* not a directory raises NotADirectoryError; calls lists the paths rmtree
\* was called on
RemoveIfExists(st, p) ==
    IF ~exists(st.fs, p) THEN st
    ELSE IF is_dir(st.fs, p)
         THEN [st EXCEPT !.fs = rmtree(st.fs, p), !.calls = Append(@, p)]
    ELSE [st EXCEPT !.raised = TRUE, !.calls = Append(@, p)]

\* the first loop without its test of the cleanup flag
SkipInstance_Never(obj) == FALSE

SkipInstance(obj) == ~obj.cleanup

\* the first loop, over the tracked instances from position i on
RECURSIVE CleanupInstances(_, _, _)
CleanupInstances(insts, i, st) ==
    IF i > Len(insts) \/ st.raised THEN st
    ELSE IF SkipInstance(insts[i]) THEN CleanupInstances(insts, i + 1, st)
    ELSE CleanupInstances(insts, i + 1,
            RemoveIfExists([st EXCEPT !.cl = st.cl \ {insts[i].location}],
                           insts[i].location))

\* the second loop, over CLEANUP_LOCATIONS in the order the set yields
RECURSIVE CleanupLeftovers(_, _, _)
CleanupLeftovers(order, i, st) ==
    IF i > Len(order) \/ st.raised THEN st
    ELSE CleanupLeftovers(order, i + 1, RemoveIfExists(st, order[i]))

\* the orders in which iterating the set S may yield its elements
Orders(S) ==
    {o \in [1..Cardinality(S) -> S] : \A x \in S : \E i \in 1..Cardinality(S) : o[i] = x}

(***************************************************************************)
(* Variables.                                                              *)
(***************************************************************************)
VARIABLES
    \* SpecStrip: one location's rendering fields, a target and the results
    \* of applying strip once and twice
    sStripPath, sParent, sTarget, sOut,
    \* SpecRegistry: the plugin source, the module global HANDLERS, the class
    \* attribute URIHandler.default and the last call with its result
    plugins, HANDLERS, default, rCall,
    \* Spec: the file system now and at the start, the tracked (live)
    \* ScanLocation instances in creation order, the module global
    \* CLEANUP_LOCATIONS, every (path, cleanup) ever constructed, the last
    \* call with its result, and one entry per run of cleanup_locations
    fs, fs0, instances, CLEANUP_LOCATIONS, created, nCreated, lastOp, runs,
    \* SpecDriver: the driver running and its argument, its position, the
    \* local variable handler, the exception in flight, the calls made so
    \* far (get_paths, locations yielded, handler.cleanup), the log and the
    \* way the driver ended
    dDriver, dUri, dPc, dHandler, dExc, dGetPaths, dYielded, dCleanups, dLog, dOutcome

stripVars == <<sStripPath, sParent, sTarget, sOut>>

regVars == <<plugins, HANDLERS, default, rCall>>

locVars == <<fs, fs0, instances, CLEANUP_LOCATIONS, created, nCreated, lastOp, runs>>

drvVars == <<dDriver, dUri, dPc, dHandler, dExc, dGetPaths, dYielded, dCleanups, dLog,
             dOutcome>>

vars == <<stripVars, regVars, locVars, drvVars>>

(***************************************************************************)
(* SpecStrip                                                               *)
(***************************************************************************)
StripIdle ==
    /\ sStripPath = <<>>
    /\ sParent = None
    /\ sTarget = <<>>
    /\ sOut = <<>>

RegIdle ==
    /\ plugins = <<>>
    /\ HANDLERS = <<>>
    /\ default = NoHook
    /\ rCall = NoCall

NoOp == [op |-> "none", self |-> <<>>, input |-> <<>>, out |-> <<>>, warned |-> FALSE]

LocIdle ==
    /\ fs = [p \in Paths |-> Dir]
    /\ fs0 = fs
    /\ instances = <<>>
    /\ CLEANUP_LOCATIONS = {}
    /\ created = {}
    /\ nCreated = 0
    /\ lastOp = NoOp
    /\ runs = <<>>

NoHandler == [kind |-> "None", type |-> None, scheme |-> "", exists |-> FALSE]

NoExc == "none"

DrvIdle ==
    /\ dDriver = "none"
    /\ dUri = <<>>
    /\ dPc = "idle"
    /\ dHandler = NoHandler
    /\ dExc = NoExc
    /\ dGetPaths = 0
    /\ dYielded = 0
    /\ dCleanups = 0
    /\ dLog = <<>>
    /\ dOutcome = "running"

StripInit ==
    /\ RegIdle
    /\ LocIdle
    /\ DrvIdle
    /\ sStripPath \in StringsUpTo(MaxStripLen)
    /\ sParent \in {None} \cup (StringsUpTo(MaxParentLen) \ {<<>>})
    /\ sTarget \in StringsUpTo(MaxTargetLen)
    /\ sOut = <<>>

\* out = location.strip(target)
StripOnce ==
    /\ Len(sOut) = 0
    /\ sOut' = <<strip(sStripPath, sParent, sTarget)>>
    /\ UNCHANGED <<sStripPath, sParent, sTarget, regVars, locVars, drvVars>>

\* out2 = location.strip(out)
StripAgain ==
    /\ Len(sOut) = 1
    /\ sOut' = Append(sOut, strip(sStripPath, sParent, sOut[1]))
    /\ UNCHANGED <<sStripPath, sParent, sTarget, regVars, locVars, drvVars>>

StripNext == StripOnce \/ StripAgain

SpecStrip == StripInit /\ [][StripNext]_vars

(***************************************************************************)
(* Spec: ScanLocation objects and the shutdown hook                        *)
(***************************************************************************)
\* metadata dicts callers construct root locations with (parse_ast passes
\* no depth, scan_uri's handlers pass one)
RootMetadata ==
    { [k \in {"source"} |-> <<"cli">>],
      [k \in {"depth", "interpreter_path"} |->
          IF k = "depth" THEN DEFAULT_MAX_DEPTH ELSE <<"python">>] }

\* the metadata argument of create_child
ChildMetadataArgs == {NoMetadata, Supplied([k \in {"interpreter_path"} |-> <<"python">>])}

\* the keyword overrides of create_child
ChildKwargs ==
    { EmptyDict,
      [k \in {"cleanup"} |-> TRUE],
      [k \in {"parent", "strip_path"} |-> IF k = "parent" THEN None ELSE <<>>] }

Tags == {"tag"}

Init ==
    /\ StripIdle
    /\ RegIdle
    /\ DrvIdle
    /\ fs \in FileSystems
    /\ fs0 = fs
    /\ instances = <<>>
    /\ CLEANUP_LOCATIONS = {}
    /\ created = {}
    /\ nCreated = 0
    /\ lastOp = NoOp
    /\ runs = <<>>

Running == runs = <<>>

\* CLEANUP_LOCATIONS.add(self.location), base.py 130-131
Register(obj) ==
    IF obj.cleanup THEN CLEANUP_LOCATIONS \cup {obj.location} ELSE CLEANUP_LOCATIONS

\* ScanLocation(location=location, metadata=metadata, cleanup=cleanup)
NewLocation(location, metadata, cleanup) ==
    LET obj == post_init(fs, location, metadata, cleanup, None, <<>>)
    IN  /\ Running
        /\ nCreated < MaxCreated
        /\ nCreated' = nCreated + 1
        /\ instances' = Append(instances, obj)
        /\ CLEANUP_LOCATIONS' = Register(obj)
        /\ created' = created \cup {[path |-> obj.location, cleanup |-> obj.cleanup]}
        /\ lastOp' = [op |-> "ScanLocation", self |-> <<>>,
                      input |-> [location |-> location, metadata |-> metadata],
                      out |-> <<obj>>, warned |-> DepthMissing(metadata)]
        /\ UNCHANGED <<fs, fs0, runs, stripVars, regVars, drvVars>>

\* instances[i].create_child(new_location, metadata, **kwargs)
CreateChild(i, new_location, metadata, kwargs) ==
    LET self == instances[i]
        child == create_child(fs, self, new_location, metadata, kwargs)
    IN  /\ Running
        /\ nCreated < MaxCreated
        /\ nCreated' = nCreated + 1
        /\ instances' = Append(instances, child)
        /\ CLEANUP_LOCATIONS' = Register(child)
        /\ created' = created \cup {[path |-> child.location, cleanup |-> child.cleanup]}
        /\ lastOp' = [op |-> "create_child", self |-> <<self>>,
                      input |-> [location |-> new_location, metadata |-> metadata,
                                 kwargs |-> kwargs],
                      out |-> <<child>>,
                      warned |-> DepthMissing(ChildMetadata(self, metadata))]
        /\ UNCHANGED <<fs, fs0, runs, stripVars, regVars, drvVars>>

\* ScanLocation(location=location, cleanup=True) on a file, where reading
\* the file (hashing, stat, libmagic) raises: the path is registered, no
\* instance comes to life
FailedConstruction(location) ==
    /\ Running
    /\ nCreated < MaxCreated
    /\ is_file(fs, PathOf(location))
    /\ nCreated' = nCreated + 1
    /\ CLEANUP_LOCATIONS' = CLEANUP_LOCATIONS \cup {PathOf(location)}
    /\ created' = created \cup {[path |-> PathOf(location), cleanup |-> TRUE]}
    /\ lastOp' = NoOp
    /\ UNCHANGED <<fs, fs0, instances, runs, stripVars, regVars, drvVars>>

\* an analyzer adds a tag to the location's tag set
TagLocation(i, tag) ==
    /\ Running
    /\ tag \notin instances[i].metadata["tags"]
    /\ instances' = [instances EXCEPT ![i].metadata["tags"] = @ \cup {tag}]
    /\ lastOp' = NoOp
    /\ UNCHANGED <<fs, fs0, CLEANUP_LOCATIONS, created, nCreated, runs, stripVars, regVars, drvVars>>

\* the last reference to instance i is dropped: the weak registry of
\* instances no longer yields it
Collect(i) ==
    /\ Running
    /\ instances' = [j \in 1..(Len(instances) - 1) |->
                        IF j < i THEN instances[j] ELSE instances[j + 1]]
    /\ lastOp' = NoOp
    /\ UNCHANGED <<fs, fs0, CLEANUP_LOCATIONS, created, nCreated, runs, stripVars, regVars, drvVars>>

\* instances[i].should_continue() under the configuration section cfg
ShouldContinue(i, cfg) ==
    /\ Running
    /\ lastOp' = [op |-> "should_continue", self |-> <<instances[i]>>,
                  input |-> cfg, out |-> <<should_continue(instances[i], cfg)>>,
                  warned |-> FALSE]
    /\ UNCHANGED <<fs, fs0, instances, CLEANUP_LOCATIONS, created, nCreated, runs,
                   stripVars, regVars, drvVars>>

\* cleanup_locations(), the atexit hook; order is the order in which the
\* second loop's iteration yields CLEANUP_LOCATIONS
CleanupLocations ==
    LET first == CleanupInstances(instances, 1,
                     [fs |-> fs, cl |-> CLEANUP_LOCATIONS, raised |-> FALSE,
                      calls |-> <<>>])
    IN  /\ Len(runs) < MaxRuns
        /\ \E order \in Orders(first.cl) :
            LET last == CleanupLeftovers(order, 1, first)
            IN  /\ fs' = last.fs
                /\ CLEANUP_LOCATIONS' = last.cl
                /\ runs' = Append(runs,
                              [deleted |-> {p \in Paths : exists(fs, p) /\ ~exists(last.fs, p)},
                               raised |-> last.raised,
                               calls |-> last.calls])
        /\ lastOp' = NoOp
        /\ UNCHANGED <<fs0, instances, created, nCreated, stripVars, regVars, drvVars>>

\* Spec: one root location and the locations derived from it, with tagging
\* and the depth check, for every metadata argument and keyword override
Next ==
    \/ \E location \in Paths \ {TempDir}, metadata \in RootMetadata :
          instances = <<>> /\ NewLocation(location, metadata, FALSE)
    \/ \E i \in 1..Len(instances), new_location \in LocationInputs,
          metadata \in ChildMetadataArgs, kwargs \in ChildKwargs :
          CreateChild(i, new_location, metadata, kwargs)
    \/ \E i \in 1..Len(instances), tag \in Tags : TagLocation(i, tag)
    \/ \E i \in 1..Len(instances), cfg \in ConfigSections : ShouldContinue(i, cfg)

Spec == Init /\ [][Next]_vars

\* SpecCleanup: the life of locations up to and through the shutdown hook,
\* with every cleanup flag
CleanupNext ==
    \/ \E location \in Paths, cleanup \in BOOLEAN :
          NewLocation(location, [k \in {"depth"} |-> 0], cleanup)
    \/ \E i \in 1..Len(instances), new_location \in Paths,
          kwargs \in {EmptyDict, [k \in {"cleanup"} |-> TRUE]} :
          CreateChild(i, new_location, NoMetadata, kwargs)
    \/ \E location \in Paths : FailedConstruction(location)
    \/ \E i \in 1..Len(instances) : Collect(i)
    \/ \E i \in 1..Len(instances) : ShouldContinue(i, EmptyDict)
    \/ CleanupLocations

\* SpecCleanup also starts on a file system that holds a large and a small
\* file
CleanupInit ==
    /\ StripIdle
    /\ RegIdle
    /\ DrvIdle
    /\ fs \in FileSystems \cup {FileSystem(BigPy, SmallText)}
    /\ fs0 = fs
    /\ instances = <<>>
    /\ CLEANUP_LOCATIONS = {}
    /\ created = {}
    /\ nCreated = 0
    /\ lastOp = NoOp
    /\ runs = <<>>

SpecCleanup == CleanupInit /\ [][CleanupNext]_vars

(***************************************************************************)
(* SpecEnrich: post_analysis on locations with and without a parent and a  *)
(* strip prefix, applied to a batch of detections and then again to the    *)
(* batch it enriched.                                                      *)
(***************************************************************************)
\* a Detection as an analyzer hands it over
Detection(location, line_no, line) ==
    [message |-> "finding",
     location |-> location,
     line_no |-> line_no,
     line |-> line,
     tags |-> DetectionDefaults.tags,
     scan_location |-> DetectionDefaults.scan_location,
     metadata |-> DetectionDefaults.metadata,
     severity |-> DetectionDefaults.severity]

\* batches of detections: no location, a raw location under the scanned
\* path, with and without a line number and a line
DetectionBatches ==
    { <<Detection(None, <<>>, None)>>,
      <<Detection(TmpA \o <<SEP, "a">>, <<1>>, None)>>,
      <<Detection(DataA, <<1>>, <<"t">>), Detection(None, <<2>>, None)>> }

\* keyword overrides: none, or an archive inside the temporary directory as
\* the parent with the temporary directory as the strip prefix
EnrichKwargs ==
    { EmptyDict,
      [k \in {"parent", "strip_path"} |-> IF k = "parent" THEN TmpA ELSE TempDir] }

\* instances[i].post_analysis(detections)
PostAnalysis(i, detections) ==
    /\ Running
    /\ lastOp' = [op |-> "post_analysis", self |-> <<instances[i]>>,
                  input |-> detections,
                  out |-> <<post_analysis(instances[i], detections)>>,
                  warned |-> FALSE]
    /\ UNCHANGED <<fs, fs0, instances, CLEANUP_LOCATIONS, created, nCreated, runs,
                   stripVars, regVars, drvVars>>

\* post_analysis called once more, on the detections it has enriched
PostAnalysisAgain ==
    /\ Running
    /\ lastOp.op = "post_analysis"
    /\ Len(lastOp.out) = 1
    /\ lastOp' = [lastOp EXCEPT !.out =
                      Append(@, post_analysis(lastOp.self[1], lastOp.out[1]))]
    /\ UNCHANGED <<fs, fs0, instances, CLEANUP_LOCATIONS, created, nCreated, runs,
                   stripVars, regVars, drvVars>>

EnrichNext ==
    \/ \E location \in Paths \ {TempDir} :
          instances = <<>> /\ NewLocation(location, [k \in {"depth"} |-> 0], FALSE)
    \/ \E i \in 1..Len(instances), new_location \in LocationInputs, kwargs \in EnrichKwargs :
          CreateChild(i, new_location, NoMetadata, kwargs)
    \/ \E i \in 1..Len(instances), detections \in DetectionBatches :
          PostAnalysis(i, detections)
    \/ PostAnalysisAgain

SpecEnrich == Init /\ [][EnrichNext]_vars

\* C12: a second post_analysis on the same detections leaves every field
\* (location, line, scan_location, metadata, severity, tags) as the first
\* left it.
C12_EnrichTwice ==
    (lastOp.op = "post_analysis" /\ Len(lastOp.out) = 2) => lastOp.out[2] = lastOp.out[1]

(***************************************************************************)
(* SpecRender: an archive file outside the temporary directory, whose      *)
(* handler has constructed its root location, and the chain of default     *)
(* derivations (no metadata, no keyword overrides) that unpacking it under *)
(* the temporary directory makes.  nCreated counts the derivations.        *)
(***************************************************************************)
\* members of the archive below the extraction directory TmpA
Members == {TmpA \o <<SEP, "a">>, TmpA \o <<SEP, "a", SEP, "a">>}

RenderInputs == LocationInputs \cup Members

\* the root location of the archive at DataA
Archive(fsys) == post_init(fsys, DataA, [k \in {"depth"} |-> 0], FALSE, None, <<>>)

RenderInit ==
    /\ StripIdle
    /\ RegIdle
    /\ DrvIdle
    /\ fs \in {FileSystem(Dir, SmallText), FileSystem(Dir, BigPy)}
    /\ fs0 = fs
    /\ instances = <<Archive(fs)>>
    /\ CLEANUP_LOCATIONS = {}
    /\ created = {[path |-> DataA, cleanup |-> FALSE]}
    /\ nCreated = 0
    /\ lastOp = NoOp
    /\ runs = <<>>

RenderNext ==
    \/ \E i \in 1..Len(instances), new_location \in RenderInputs :
          CreateChild(i, new_location, NoMetadata, EmptyDict)
    \/ \E i \in 1..Len(instances) : ShouldContinue(i, EmptyDict)

SpecRender == RenderInit /\ [][RenderNext]_vars

\* C16: a member derived from the extraction directory TmpA of the archive
\* DataA is displayed as the archive's identity, "$" and the member's path
\* relative to TmpA; and no derived location's display string starts with
\* the temporary directory.
C16_MembersRender ==
    /\ ( /\ lastOp.op = "create_child"
         /\ lastOp.self[1].location = TmpA
         /\ lastOp.self[1].parent = DataA
         /\ lastOp.input.location \in Members )
       => Str(lastOp.out[1]) =
              DataA \o <<"$">> \o SliceFrom(lastOp.input.location, Len(TmpA) + 1)
    /\ \A i \in 2..Len(instances) : ~StartsWith(Str(instances[i]), TempDir)

(***************************************************************************)
(* SpecLineage: chains of derivations from a root at DataA, a directory or *)
(* a file, with and without keyword overrides.  nCreated counts the        *)
(* derivations.                                                            *)
(***************************************************************************)
LineageKwargs == ChildKwargs \cup {[k \in {"parent"} |-> TmpA]}

LineageInit ==
    /\ StripIdle
    /\ RegIdle
    /\ DrvIdle
    /\ fs \in FileSystems
    /\ fs0 = fs
    /\ instances = <<Archive(fs)>>
    /\ CLEANUP_LOCATIONS = {}
    /\ created = {[path |-> DataA, cleanup |-> FALSE]}
    /\ nCreated = 0
    /\ lastOp = NoOp
    /\ runs = <<>>

LineageNext ==
    \E i \in 1..Len(instances), new_location \in LocationInputs, kwargs \in LineageKwargs :
        CreateChild(i, new_location, NoMetadata, kwargs)

SpecLineage == LineageInit /\ [][LineageNext]_vars

\* C18: a child derived without a parent override has the deriving
\* location's own parent when that location is a directory and the deriving
\* location's path otherwise; a parent override, an explicit None included,
\* is used as given.
C18_ParentLinkage ==
    lastOp.op = "create_child" =>
        LET self == lastOp.self[1]
            child == lastOp.out[1]
            kwargs == lastOp.input.kwargs
        IN  /\ Has(kwargs, "parent") => child.parent = kwargs["parent"]
            /\ ~Has(kwargs, "parent") =>
                  child.parent = IF fs[self.location].kind = "dir"
                                 THEN self.parent ELSE self.location

\* second link of a chain: a location derived from a directory that was
\* itself derived from the file at DataA has that file as its parent
C18_Witness ==
    /\ lastOp.op = "create_child"
    /\ ~Has(lastOp.input.kwargs, "parent")
    /\ nCreated = 2
    /\ fs[DataA].kind = "file"
    /\ fs[lastOp.self[1].location].kind = "dir"
    /\ lastOp.self[1].parent = DataA
    /\ lastOp.out[1].parent = DataA

(***************************************************************************)
(* Properties of Spec                                                      *)
(***************************************************************************)
\* C1: every location produced by create_child, with or without a metadata
\* argument, has depth = depth of the deriving location + 1.
C1_ChildDepth ==
    lastOp.op = "create_child" =>
        lastOp.out[1].metadata["depth"] = lastOp.self[1].metadata["depth"] + 1

\* C3: the derived child does not carry the inherited mime or
\* interpreter_path, and its tags equal the tags of the deriving location at
\* the time of derivation.
C3_ChildKeepsTags ==
    lastOp.op = "create_child" =>
        LET self == lastOp.self[1]
            child == lastOp.out[1]
        IN  /\ ~Has(child.metadata, "interpreter_path")
            /\ Has(child.metadata, "mime") => is_file(fs, child.location)
            /\ child.metadata["tags"] = self.metadata["tags"]

\* C6: should_continue returns True exactly when depth <= max-depth (the
\* configured option, 5 when it is not set); otherwise it returns a Detection
\* whose signature ends with the location's normalized display path and whose
\* scan_location is this location.
C6_ShouldContinue ==
    lastOp.op = "should_continue" =>
        LET self == lastOp.self[1]
            result == lastOp.out[1]
            limit == IF lastOp.input = EmptyDict THEN 5 ELSE 1
        IN  /\ result.continue <=> self.metadata["depth"] <= limit
            /\ result.continue => result.detection = <<>>
            /\ ~result.continue =>
                /\ Len(result.detection) = 1
                /\ result.detection[1].signature =
                       <<"data_processing#max_depth#">> \o self.metadata["normalized_path"]
                /\ result.detection[1].scan_location = <<self>>

\* a location one level below the default limit's boundary is halted
C6_Witness ==
    /\ lastOp.op = "should_continue"
    /\ lastOp.input = EmptyDict
    /\ lastOp.self[1].metadata["depth"] = 6
    /\ ~lastOp.out[1].continue

(***************************************************************************)
(* Properties of SpecCleanup                                               *)
(***************************************************************************)
InFlaggedTree(p) == \E c \in created : c.cleanup /\ Inside(p, c.path)

\* C7: only the shutdown hook deletes, and it deletes only inside the path
\* trees of locations created with cleanup=true: the path of a location
\* created with cleanup=false outside every flagged tree is as it was.
C7_OnlyFlaggedDeleted ==
    /\ runs = <<>> => fs = fs0
    /\ \A p \in Paths : fs[p] # fs0[p] => InFlaggedTree(p)
    /\ \A c \in created : (~c.cleanup /\ ~InFlaggedTree(c.path)) => fs[c.path] = fs0[c.path]

\* the hook ran and deleted a flagged tree while an unflagged location's
\* path, outside it, still exists
C7_Witness ==
    /\ runs # <<>>
    /\ runs[1].deleted # {}
    /\ \E c \in created : ~c.cleanup /\ ~InFlaggedTree(c.path) /\ exists(fs, c.path)

\* C8: a second run of cleanup_locations deletes nothing and raises no
\* error.
C8_SecondRunQuiet ==
    Len(runs) >= 2 => (runs[2].deleted = {} /\ ~runs[2].raised)

\* no live instance holds the path p
Orphaned(p) == \A i \in 1..Len(instances) : instances[i].location # p

\* C19: a path registered by a cleanup=true construction and held by no
\* live instance at shutdown (the construction failed, or the instance was
\* collected) does not exist after a run of cleanup_locations.
C19_OrphanedPathsReclaimed ==
    runs # <<>> =>
        \A c \in created : (c.cleanup /\ Orphaned(c.path)) => ~exists(fs, c.path)

\* C20: in a run of cleanup_locations shutil.rmtree is called at most once
\* on each path, and after a run that did not raise no live cleanup=true
\* instance's path is left in CLEANUP_LOCATIONS.
C20_DeletedAtMostOnce ==
    \A r \in 1..Len(runs) :
        /\ \A j, k \in 1..Len(runs[r].calls) : runs[r].calls[j] = runs[r].calls[k] => j = k
        /\ ~runs[r].raised =>
              \A i \in 1..Len(instances) :
                  instances[i].cleanup => instances[i].location \notin CLEANUP_LOCATIONS

\* two live cleanup=true instances on the same directory, removed by one
\* call in a run that did not raise
C20_Witness ==
    /\ Len(runs) >= 1
    /\ ~runs[1].raised
    /\ \E i, j \in 1..Len(instances) :
          /\ i # j
          /\ instances[i].cleanup /\ instances[j].cleanup
          /\ instances[i].location = instances[j].location
          /\ \E k \in 1..Len(runs[1].calls) : runs[1].calls[k] = instances[i].location

Fingerprints == {"md5", "sha1", "sha256", "sha512", "tlsh", "mime"}

\* C13: no location whose path is a directory carries a fingerprint key
\* (md5, sha1, sha256, sha512, tlsh, mime) in its metadata.
C13_DirectoriesCarryNoFingerprint ==
    \A i \in 1..Len(instances) :
        is_dir(fs0, instances[i].location) =>
            Fingerprints \cap DOMAIN instances[i].metadata = {}

\* C14: a location on a file smaller than 256 bytes carries its four
\* digests and no tlsh; a location on a file of at least 256 bytes carries
\* that file's own tlsh.
C14_FuzzyHashOnlyWhenLargeEnough ==
    \A i \in 1..Len(instances) :
        LET loc == instances[i]
        IN  is_file(fs0, loc.location) =>
              /\ \A algo \in {"md5", "sha1", "sha256", "sha512"} :
                    /\ Has(loc.metadata, algo)
                    /\ loc.metadata[algo] = Digest(algo, fs0, loc.location)
              /\ fs0[loc.location].size < TLSH_MIN => ~Has(loc.metadata, "tlsh")
              /\ fs0[loc.location].size >= TLSH_MIN =>
                    /\ Has(loc.metadata, "tlsh")
                    /\ loc.metadata["tlsh"] = Digest("tlsh", fs0, loc.location)

(***************************************************************************)
(* SpecRegistry                                                            *)
(***************************************************************************)
RegInit ==
    /\ StripIdle
    /\ LocIdle
    /\ DrvIdle
    /\ plugins \in PluginSources
    /\ HANDLERS = <<>>
    /\ default = NoHook
    /\ rCall = NoCall

Registry == [handlers |-> HANDLERS, default |-> default]

\* URIHandler.load_handlers(ignore_disabled)
LoadHandlers(ignore_disabled) ==
    LET st == load_handlers(plugins, ignore_disabled, Registry)
    IN  /\ HANDLERS' = st.handlers
        /\ default' = st.default
        /\ rCall' = [op |-> "load_handlers", args |-> <<ignore_disabled>>, out |-> <<>>,
                     scanned |-> IteratesSource(Registry)]
        /\ UNCHANGED <<plugins, stripVars, locVars, drvVars>>

\* URIHandler.from_uri(uri)
FromUri(uri) ==
    LET st == load_handlers(plugins, TRUE, Registry)
    IN  /\ HANDLERS' = st.handlers
        /\ default' = st.default
        /\ rCall' = [op |-> "from_uri", args |-> <<uri>>, out |-> from_uri(st, uri),
                     scanned |-> IteratesSource(Registry)]
        /\ UNCHANGED <<plugins, stripVars, locVars, drvVars>>

\* URIHandler.diff_from_uri(uri1, uri2)
DiffFromUri(uri1, uri2) ==
    LET st == load_handlers(plugins, TRUE, Registry)
    IN  /\ HANDLERS' = st.handlers
        /\ default' = st.default
        /\ rCall' = [op |-> "diff_from_uri", args |-> <<uri1, uri2>>,
                     out |-> diff_from_uri(st, uri1, uri2),
                     scanned |-> IteratesSource(Registry)]
        /\ UNCHANGED <<plugins, stripVars, locVars, drvVars>>

RegNext ==
    \/ \E ignore_disabled \in BOOLEAN : LoadHandlers(ignore_disabled)
    \/ \E uri \in URIs : FromUri(uri)
    \/ \E uri1, uri2 \in URIs : DiffFromUri(uri1, uri2)

SpecRegistry == RegInit /\ [][RegNext]_vars

\* C4: diff_from_uri(a, b) resolves each URI on its own: whenever from_uri(a)
\* and from_uri(b) both return a handler, diff_from_uri(a, b) returns
\* handlers of the same two types.
C4_PairResolvesIndependently ==
    rCall.op = "diff_from_uri" =>
        LET a == from_uri(Registry, rCall.args[1])[1]
            b == from_uri(Registry, rCall.args[2])[1]
        IN  (a.kind = "handler" /\ b.kind = "handler") =>
                /\ Len(rCall.out) = 2
                /\ rCall.out[1].type = a.type
                /\ rCall.out[2].type = b.type

\* C5: from_uri never raises: it returns a handler (or an absent value) for
\* every URI and every registry content.
C5_FromUriNeverRaises ==
    rCall.op = "from_uri" => rCall.out[1].kind # "raise"

\* C11: after the first call that loads the registry, no later call of
\* load_handlers, from_uri or diff_from_uri iterates the plugin source, and
\* each leaves HANDLERS and the default handler unchanged.
C11_LoadOnce ==
    [][rCall.op # "none" =>
          (~rCall'.scanned /\ HANDLERS' = HANDLERS /\ default' = default)]_vars

\* the entry points of the plugin source that load, and those that signal
\* FeatureDisabled
Enabled == {i \in 1..Len(plugins) : ~plugins[i].disabled}

Disabled == {i \in 1..Len(plugins) : plugins[i].disabled}

\* every entry that loads is registered: its scheme is a key of HANDLERS, held
\* by the last entry that loaded with that scheme
OthersRegistered ==
    \A i \in Enabled :
        /\ HasKey(HANDLERS, plugins[i].scheme)
        /\ \E j \in Enabled :
              /\ plugins[j].scheme = plugins[i].scheme
              /\ j >= i
              /\ DictGet(HANDLERS, plugins[i].scheme).hook = Hook(plugins, j)

\* the names and reasons HANDLERS holds under "disabled"
Collected ==
    IF HasKey(HANDLERS, "disabled")
    THEN {DictGet(HANDLERS, "disabled").disabled[k] :
             k \in 1..Len(DictGet(HANDLERS, "disabled").disabled)}
    ELSE {}

AllDisabled == {[name |-> EntryName(i), reason |-> EntryReason(i)] : i \in Disabled}

DeclaredDefault == {i \in Enabled : plugins[i].default}

\* C21: once the registry has been loaded, the default is the first entry in
\* load order that loaded and declared itself default, and no default is set
\* when no entry did; a later entry declaring default does not replace it.
C21_FirstDefaultWins ==
    rCall.op # "none" =>
        IF DeclaredDefault = {}
        THEN default = NoHook
        ELSE \E i \in DeclaredDefault :
                /\ \A j \in DeclaredDefault : i <= j
                /\ default = Hook(plugins, i)

\* two entries declared default and the first of them is the default
C21_Witness ==
    /\ rCall.op # "none"
    /\ Len(plugins) = 2
    /\ DeclaredDefault = {1, 2}
    /\ default = Hook(plugins, 1)
    /\ default # Hook(plugins, 2)

\* C22: every entry of HANDLERS is keyed by a scheme and holds a handler
\* type of that scheme, so that the loops of from_uri and diff_from_uri over
\* HANDLERS.values() never fail on a value.
C22_RegistryWellFormed ==
    /\ \A i \in 1..Len(HANDLERS) :
          /\ HANDLERS[i].isHook
          /\ HANDLERS[i].key \in Schemes
          /\ HANDLERS[i].hook.scheme = HANDLERS[i].key
    /\ rCall.op \in {"from_uri", "diff_from_uri"} =>
          \A k \in 1..Len(rCall.out) : rCall.out[k].type # <<"AttributeError">>

(***************************************************************************)
(* SpecDriver: commands.py scan_uri (82-135) and check_requirement (38-69),*)
(* one action per step.  The handler's own operations (exists, get_paths,  *)
(* cleanup), the analyzer behind scan_worker and the output formatters are *)
(* the environment: each step draws what they do.                          *)
(***************************************************************************)
\* exceptions that traversal, scanning or formatting may raise
Failures == {"NoSuchPackage", "RuntimeError", "KeyboardInterrupt"}

\* exception classes: `except exceptions.NoSuchPackage` and `except Exception`
IsNoSuchPackage(exc) == exc = "NoSuchPackage"

IsException(exc) == exc \notin {"KeyboardInterrupt", "SystemExit"}

DriverPluginSources ==
    { <<>>,
      <<[scheme |-> "file", default |-> TRUE, disabled |-> FALSE]>>,
      <<[scheme |-> "file", default |-> TRUE, disabled |-> FALSE],
        [scheme |-> "mirror", default |-> FALSE, disabled |-> FALSE]>> }

DrvInit ==
    /\ StripIdle
    /\ LocIdle
    /\ plugins \in DriverPluginSources
    /\ HANDLERS = <<>>
    /\ default = NoHook
    /\ rCall = NoCall
    /\ DrvIdle

\* the driver is called with a URI
Call(driver, uri) ==
    /\ dPc = "idle"
    /\ dDriver' = driver
    /\ dUri' = uri
    /\ dPc' = IF driver = "scan_uri" THEN "formatters" ELSE "resolve"
    /\ UNCHANGED <<dHandler, dExc, dGetPaths, dYielded, dCleanups, dLog, dOutcome,
                   stripVars, regVars, locVars>>

\* scan_uri 93: the formatters are built before the try statement
ScanFormatters(failure) ==
    /\ dDriver = "scan_uri" /\ dPc = "formatters"
    /\ IF failure = NoExc
       THEN dPc' = "resolve" /\ dExc' = dExc
       ELSE dPc' = "exit" /\ dExc' = failure
    /\ UNCHANGED <<dDriver, dUri, dHandler, dGetPaths, dYielded, dCleanups, dLog, dOutcome,
                   stripVars, regVars, locVars>>

\* handler = URIHandler.from_uri(uri); exists is what handler.exists will
\* report
Resolve(exists_) ==
    LET st == load_handlers(plugins, TRUE, Registry)
        got == from_uri(st, dUri)[1]
    IN  /\ dPc = "resolve"
        /\ HANDLERS' = st.handlers
        /\ default' = st.default
        /\ rCall' = [op |-> "from_uri", args |-> <<dUri>>, out |-> <<got>>,
                      scanned |-> IteratesSource(Registry)]
        /\ IF got.kind = "raise"
           THEN /\ dExc' = got.type[1]
                /\ dHandler' = dHandler
                /\ dPc' = IF dDriver = "scan_uri" THEN "except" ELSE "exit"
           ELSE /\ dExc' = dExc
                /\ dHandler' = [kind |-> "handler", type |-> got.type,
                                scheme |-> got.scheme, exists |-> exists_]
                /\ dPc' = IF dDriver = "scan_uri" THEN "check" ELSE "paths"
        /\ UNCHANGED <<plugins, dDriver, dUri, dGetPaths, dYielded, dCleanups, dLog,
                       dOutcome, stripVars, locVars>>

\* the checks without the test of handler.exists
CheckHandler_NoExistsTest(handler) ==
    IF handler = NoHandler THEN "ValueError" ELSE NoExc

\* scan_uri 98-101: the exception the checks of the handler raise, if any
CheckHandler(handler) ==
    IF handler = NoHandler THEN "ValueError"
    ELSE IF ~handler.exists THEN "InvalidLocation"
    ELSE NoExc

\* scan_uri 98-108
ScanCheck ==
    /\ dDriver = "scan_uri" /\ dPc = "check"
    /\ dExc' = CheckHandler(dHandler)
    /\ dPc' = IF CheckHandler(dHandler) = NoExc THEN "paths" ELSE "except"
    /\ UNCHANGED <<dDriver, dUri, dHandler, dGetPaths, dYielded, dCleanups, dLog, dOutcome,
                   stripVars, regVars, locVars>>

\* where control goes when the body of the try statement raises
AfterFailure == IF dDriver = "scan_uri" THEN "except" ELSE "finally"

\* one step of `for x in handler.get_paths()`: the generator yields a
\* location, is exhausted, or raises
NextPath(step) ==
    /\ dPc = "paths"
    /\ dGetPaths' = 1
    /\ \/ /\ step = "yield"
          /\ dYielded < MaxLocations
          /\ dYielded' = dYielded + 1
          /\ dPc' = "worker"
          /\ dExc' = dExc
       \/ /\ step = "stop"
          /\ dPc' = IF dDriver = "scan_uri" THEN "format" ELSE "typos"
          /\ UNCHANGED <<dYielded, dExc>>
       \/ /\ step \in Failures
          /\ dPc' = AfterFailure
          /\ dExc' = step
          /\ UNCHANGED dYielded
    /\ UNCHANGED <<dDriver, dUri, dHandler, dCleanups, dLog, dOutcome,
                   stripVars, regVars, locVars>>

\* scan_worker(x), 71-79: a location that does not exist is logged and
\* skipped; otherwise the analyzer runs, and may raise
Worker(step) ==
    /\ dPc = "worker"
    /\ \/ /\ step = "missing"
          /\ dLog' = Append(dLog, <<"error">>)
          /\ dPc' = "paths"
          /\ dExc' = dExc
       \/ /\ step = "scanned"
          /\ dPc' = "paths"
          /\ UNCHANGED <<dLog, dExc>>
       \/ /\ step \in Failures
          /\ dPc' = AfterFailure
          /\ dExc' = step
          /\ UNCHANGED dLog
    /\ UNCHANGED <<dDriver, dUri, dHandler, dGetPaths, dYielded, dCleanups, dOutcome,
                   stripVars, regVars, locVars>>

\* scan_uri 116-123, the formatters; check_requirement 56-65, the
\* typosquatting check
Finish(failure) ==
    /\ dPc \in {"format", "typos"}
    /\ IF failure = NoExc
       THEN dPc' = "finally" /\ dExc' = dExc
       ELSE dPc' = AfterFailure /\ dExc' = failure
    /\ UNCHANGED <<dDriver, dUri, dHandler, dGetPaths, dYielded, dCleanups, dLog, dOutcome,
                   stripVars, regVars, locVars>>

\* scan_uri 125-129, the except clauses
ScanExcept ==
    /\ dDriver = "scan_uri" /\ dPc = "except"
    /\ IF IsNoSuchPackage(dExc)
       THEN dLog' = Append(dLog, <<"warn">>) /\ dExc' = NoExc
       ELSE IF IsException(dExc)
       THEN dLog' = Append(dLog, <<"exception", dExc>>) /\ dExc' = dExc
       ELSE UNCHANGED <<dLog, dExc>>
    /\ dPc' = "finally"
    /\ UNCHANGED <<dDriver, dUri, dHandler, dGetPaths, dYielded, dCleanups, dOutcome,
                   stripVars, regVars, locVars>>

\* a release that is skipped while an exception is in flight
ReleasesHandler_OnSuccessOnly(driver, handler, exc) == handler # NoHandler /\ exc = NoExc

\* whether the finally clause calls handler.cleanup(): scan_uri tests
\* `if handler`, check_requirement calls it unconditionally
ReleasesHandler(driver, handler, exc) == driver = "check_requirement" \/ handler # NoHandler

\* scan_uri 130-132, check_requirement 67-68
Finally ==
    /\ dPc = "finally"
    /\ dCleanups' = IF ReleasesHandler(dDriver, dHandler, dExc) THEN dCleanups + 1 ELSE dCleanups
    /\ dPc' = IF dExc # NoExc THEN "exit"
              ELSE IF dDriver = "scan_uri" THEN "return" ELSE "sysexit"
    /\ UNCHANGED <<dDriver, dUri, dHandler, dExc, dGetPaths, dYielded, dLog, dOutcome,
                   stripVars, regVars, locVars>>

\* scan_uri 134-135
ScanReturn ==
    /\ dDriver = "scan_uri" /\ dPc = "return"
    /\ dLog' = Append(dLog, <<"info">>)
    /\ dOutcome' = "returned"
    /\ dPc' = "done"
    /\ UNCHANGED <<dDriver, dUri, dHandler, dExc, dGetPaths, dYielded, dCleanups,
                   stripVars, regVars, locVars>>

\* check_requirement 69: sys.exit(1)
SysExit ==
    /\ dDriver = "check_requirement" /\ dPc = "sysexit"
    /\ dExc' = "SystemExit"
    /\ dPc' = "exit"
    /\ UNCHANGED <<dDriver, dUri, dHandler, dGetPaths, dYielded, dCleanups, dLog, dOutcome,
                   stripVars, regVars, locVars>>

\* the exception in flight leaves the driver
Propagate ==
    /\ dPc = "exit"
    /\ dOutcome' = "raised"
    /\ dPc' = "done"
    /\ UNCHANGED <<dDriver, dUri, dHandler, dExc, dGetPaths, dYielded, dCleanups, dLog,
                   stripVars, regVars, locVars>>

DrvNext ==
    \/ \E driver \in {"scan_uri", "check_requirement"}, uri \in URIs : Call(driver, uri)
    \/ \E failure \in {NoExc, "RuntimeError"} : ScanFormatters(failure)
    \/ \E exists_ \in BOOLEAN : Resolve(exists_)
    \/ ScanCheck
    \/ \E step \in {"yield", "stop"} \cup Failures : NextPath(step)
    \/ \E step \in {"missing", "scanned"} \cup Failures : Worker(step)
    \/ \E failure \in {NoExc} \cup Failures : Finish(failure)
    \/ ScanExcept
    \/ Finally
    \/ ScanReturn
    \/ SysExit
    \/ Propagate

SpecDriver == DrvInit /\ [][DrvNext]_vars

\* C9: whenever a handler has been resolved, the driver has called
\* handler.cleanup() exactly once when it returns or lets an exception out,
\* and never more than once before.
C9_HandlerReleasedOnce ==
    /\ dCleanups <= 1
    /\ dCleanups = 1 => dHandler # NoHandler
    /\ (dPc \in {"return", "sysexit", "exit", "done"} /\ dHandler # NoHandler) => dCleanups = 1

\* an exception raised in the middle of traversal has left the driver, after
\* the one call of cleanup
C9_Witness ==
    /\ dPc = "done"
    /\ dOutcome = "raised"
    /\ dExc = "RuntimeError"
    /\ dYielded >= 1
    /\ dCleanups = 1

\* C10: in scan_uri, when the handler reports exists = false, the
\* InvalidLocation failure is raised before get_paths is called, is logged
\* and leaves scan_uri, after handler.cleanup() has run.
C10_InvalidLocation ==
    (dDriver = "scan_uri" /\ dHandler # NoHandler /\ ~dHandler.exists) =>
        /\ dGetPaths = 0 /\ dYielded = 0
        /\ dPc \notin {"paths", "worker", "format", "return"}
        /\ dPc \in {"except", "finally", "exit", "done"} => dExc = "InvalidLocation"
        /\ dPc \in {"finally", "exit", "done"} => dLog = <<<<"exception", "InvalidLocation">>>>
        /\ dPc \in {"exit", "done"} => dCleanups = 1
        /\ dPc = "done" => dOutcome = "raised"

\* scan_uri has ended on a handler whose target does not exist
C10_Witness ==
    /\ dDriver = "scan_uri"
    /\ dPc = "done"
    /\ dHandler # NoHandler
    /\ ~dHandler.exists
    /\ dOutcome = "raised"
    /\ dCleanups = 1

(***************************************************************************)
(* Properties of SpecStrip                                                 *)
(***************************************************************************)
\* C2: strip is idempotent: strip(strip(x)) = strip(x) for every location
\* and every target x.
C2_StripIdempotent == Len(sOut) = 2 => sOut[2] = sOut[1]

\* the target with the prefix removed and, when the prefix does not end with
\* a separator, one separator that follows it removed
WithoutPrefix(prefix, target) ==
    LET rest == SliceFrom(target, Len(prefix))
    IN  IF prefix[Len(prefix)] # SEP /\ rest # <<>> /\ rest[1] = SEP
        THEN SliceFrom(rest, 1) ELSE rest

\* C17: for a non-empty strip_path and a target that starts with it, step 1
\* of strip removes the prefix and at most one separator after it, and no
\* other character (step 2 then adds the parent).
C17_PrefixAndOneSeparator ==
    (Len(sOut) >= 1 /\ sStripPath # <<>> /\ StartsWith(sTarget, sStripPath)) =>
        sOut[1] = AddParent(sParent, WithoutPrefix(sStripPath, sTarget))

====
